---- MODULE Spec2Model ----
(***************************************************************************)
(* importfindata: main.py.  Downloads the bossa.pl fund manifest and zip   *)
(* archive and updates the GnuCash price database of every FUND commodity  *)
(* that already has a PLN price, when the archive's quote is newer.        *)
(*                                                                         *)
(* Texts are sequences of one-character strings.  A character outside     *)
(* ASCII is spelled by its name ("LSTROKE").  A date is <<year, month,     *)
(* day>>.  A decimal is [coef, exp] and stands for coef / 10^exp.          *)
(***************************************************************************)
EXTENDS Integers, Sequences, FiniteSets, TLC

VARIABLES
    manifest,           \* lines of mstfun.lst as served (splitlines())
    archive,            \* mstfun.zip as served: member name -> table
    commodities,        \* fullnames of the book's FUND commodities, in order
    file,               \* price database in the wallet file on disk
    pc,                 \* position of the process in __main__
    runNo,              \* 1 for the first invocation, 2 for the repeated one
    pdb,                \* price database of the open book (in memory)
    idx,                \* index of the next commodity of the for loop
    fund_to_file_date,  \* MstFun.fund_to_file_date
    error,              \* the exception propagating, NoError when none
    report,             \* progress lines printed by the loop
    sessionOpened, sessionEnds,
    tmpAcquired, tmpCloses,
    zipAcquired, zipCloses,
    saveCalls,
    addCalls,           \* arguments of pdb.add_price, in call order
    lookups             \* number of get_fund_price calls

vars == <<manifest, archive, commodities, file, pc, runNo, pdb, idx,
          fund_to_file_date, error, report, sessionOpened, sessionEnds,
          tmpAcquired, tmpCloses, zipAcquired, zipCloses, saveCalls,
          addCalls, lookups>>

\* ------------------------------------------------------------------ bounds
MaxFunds == 2      \* FUND commodities in the book
MaxBody  == 2      \* manifest lines between header and trailer
MaxDay   == 2      \* days of January 2023 used as price dates

\* ------------------------------------------------------------- characters
Digits == {"0", "1", "2", "3", "4", "5", "6", "7", "8", "9"}

IsDigit(c) == c \in Digits

IsSpace(c) == c \in {" ", "\t"}

DigitVal(c) ==
    CASE c = "0" -> 0 [] c = "1" -> 1 [] c = "2" -> 2 [] c = "3" -> 3
      [] c = "4" -> 4 [] c = "5" -> 5 [] c = "6" -> 6 [] c = "7" -> 7
      [] c = "8" -> 8 [] c = "9" -> 9

DigitChar(n) ==
    CASE n = 0 -> "0" [] n = 1 -> "1" [] n = 2 -> "2" [] n = 3 -> "3"
      [] n = 4 -> "4" [] n = 5 -> "5" [] n = 6 -> "6" [] n = 7 -> "7"
      [] n = 8 -> "8" [] n = 9 -> "9"

\* unidecode: transliteration of one character to plain ASCII
UnidecodeChar(c) ==
    CASE c = "LSTROKE" -> "l"
      [] c = "OACUTE"  -> "o"
      [] OTHER         -> c

unidecode(s) == [k \in 1..Len(s) |-> UnidecodeChar(s[k])]

\* ------------------------------------------------------------------ dates
IsLeap(y) == (y % 4 = 0 /\ y % 100 # 0) \/ y % 400 = 0

DaysInMonth(y, m) ==
    IF m = 2 THEN (IF IsLeap(y) THEN 29 ELSE 28)
    ELSE IF m \in {4, 6, 9, 11} THEN 30 ELSE 31

\* datetime.strptime on the digit groups of a year, a month and a day.
\* "format": the text does not match the directive patterns (the message
\* quotes the text); "range": the fields match but are no calendar date
\* (the message quotes nothing of the input).
strptime(y, m, d) ==
    IF m \notin 1..12 \/ d \notin 1..31
    THEN [ok |-> FALSE, kind |-> "format"]
    ELSE IF y = 0 \/ d > DaysInMonth(y, m)
    THEN [ok |-> FALSE, kind |-> "range"]
    ELSE [ok |-> TRUE, date |-> <<y, m, d>>]

Num2(s, k) == 10 * DigitVal(s[k]) + DigitVal(s[k + 1])

Num4(s, k) == 100 * Num2(s, k) + Num2(s, k + 2)

DateLess(a, b) ==
    \/ a[1] < b[1]
    \/ a[1] = b[1] /\ a[2] < b[2]
    \/ a[1] = b[1] /\ a[2] = b[2] /\ a[3] < b[3]

\* ------------------------------------------------- manifest line matching
\* date_file_name_pat:
\*   (\d\d\d\d-\d\d-\d\d)\s+\S+\s+\S+\s+\S+\s+(\S+)\s+(\S.*\S)\s*$
\* Every \S+ is followed by \s+ and every \s+ by \S, so each group is a
\* whole whitespace-delimited token and the match is found by one scan.
RECURSIVE SkipSpace(_, _)
SkipSpace(l, k) ==
    IF k <= Len(l) /\ IsSpace(l[k]) THEN SkipSpace(l, k + 1) ELSE k

RECURSIVE SkipWord(_, _)
SkipWord(l, k) ==
    IF k <= Len(l) /\ ~IsSpace(l[k]) THEN SkipWord(l, k + 1) ELSE k

RECURSIVE LastNonSpace(_, _)
LastNonSpace(l, k) ==
    IF k >= 1 /\ IsSpace(l[k]) THEN LastNonSpace(l, k - 1) ELSE k

DateShaped(l) ==
    /\ Len(l) >= 10
    /\ \A k \in {1, 2, 3, 4, 6, 7, 9, 10} : IsDigit(l[k])
    /\ l[5] = "-"
    /\ l[8] = "-"

\* re.match: the groups (date, file, name) or no match
PatMatch(l) ==
    IF ~DateShaped(l) THEN [ok |-> FALSE]
    ELSE
    LET a1 == SkipSpace(l, 11)
        b1 == SkipWord(l, a1)
        a2 == SkipSpace(l, b1)
        b2 == SkipWord(l, a2)
        a3 == SkipSpace(l, b2)
        b3 == SkipWord(l, a3)
        a4 == SkipSpace(l, b3)
        b4 == SkipWord(l, a4)
        a5 == SkipSpace(l, b4)
        z  == LastNonSpace(l, Len(l))
    IN  IF /\ a1 > 11 /\ b1 > a1
           /\ a2 > b1 /\ b2 > a2
           /\ a3 > b2 /\ b3 > a3
           /\ a4 > b3 /\ b4 > a4
           /\ a5 > b4 /\ z > a5
        THEN [ok   |-> TRUE,
              date |-> SubSeq(l, 1, 10),
              file |-> SubSeq(l, a4, b4 - 1),
              name |-> SubSeq(l, a5, z)]
        ELSE [ok |-> FALSE]

\* datetime.datetime.strptime(date, '%Y-%m-%d') on a matched date group
StrptimeDashed(t) == strptime(Num4(t, 1), Num2(t, 6), Num2(t, 9))

NoFunds == [n \in {} |-> <<>>]

\* dict item assignment: fund_to_file[name] = value
DictSet(f, key, val) ==
    [n \in DOMAIN f \cup {key} |-> IF n = key THEN val ELSE f[n]]

\* mutant: the slice written [3:-1]
BodyLinesShortTrailer(lines) ==
    IF Len(lines) <= 4 THEN <<>> ELSE SubSeq(lines, 4, Len(lines) - 1)

\* mstfun_lst.splitlines()[3:-2]
BodyLines(lines) ==
    IF Len(lines) <= 5 THEN <<>> ELSE SubSeq(lines, 4, Len(lines) - 2)

\* The for loop of download_polish_funds_list over the body lines, from
\* line k on, with the dictionary built so far.  The result is the returned
\* dictionary, or the exception raised and the text its message quotes.
RECURSIVE ParseFrom(_, _, _)
ParseFrom(body, k, acc) ==
    IF k > Len(body) THEN [ok |-> TRUE, funds |-> acc]
    ELSE
    LET m == PatMatch(body[k]) IN
    IF ~m.ok
    THEN [ok |-> FALSE, exc |-> "Exception", quoted |-> body[k]]
    ELSE
    LET d == StrptimeDashed(m.date) IN
    IF ~d.ok
    THEN [ok |-> FALSE, exc |-> "ValueError",
          quoted |-> IF d.kind = "format" THEN m.date ELSE <<>>]
    ELSE ParseFrom(body, k + 1,
                   DictSet(acc, m.name, [file |-> m.file, date |-> d.date]))

download_polish_funds_list(lines) == ParseFrom(BodyLines(lines), 1, NoFunds)

\* --------------------------------------------------------------- decimals
RECURSIVE DigitsValue(_, _, _)
\* the number written by the digits of s from k on, the "." skipped
DigitsValue(s, k, acc) ==
    IF k > Len(s) THEN acc
    ELSE IF s[k] = "." THEN DigitsValue(s, k + 1, acc)
    ELSE DigitsValue(s, k + 1, 10 * acc + DigitVal(s[k]))

DotAt(s) == {k \in 1..Len(s) : s[k] = "."}

\* decimal.Decimal(text) for an unsigned text: digits with at most one "."
\* and at least one digit; any other text raises InvalidOperation.
Decimal(s) ==
    IF /\ \A k \in 1..Len(s) : IsDigit(s[k]) \/ s[k] = "."
       /\ Cardinality(DotAt(s)) <= 1
       /\ \E k \in 1..Len(s) : IsDigit(s[k])
    THEN [ok   |-> TRUE,
          coef |-> DigitsValue(s, 1, 0),
          exp  |-> IF DotAt(s) = {} THEN 0
                   ELSE Len(s) - (CHOOSE k \in DotAt(s) : TRUE)]
    ELSE [ok |-> FALSE]

RECURSIVE Pow10(_)
Pow10(e) == IF e = 0 THEN 1 ELSE 10 * Pow10(e - 1)

\* mutant: the fraction is cut off instead of rounded
to_integral_truncating(coef, exp) == coef \div Pow10(exp)

\* (quote[0] * v.denom).to_integral(): the product keeps the exponent of
\* the price; to_integral rounds with the context's ROUND_HALF_EVEN.
to_integral(coef, exp) ==
    LET p == Pow10(exp)
        q == coef \div p
        r == coef % p
    IN  IF 2 * r > p THEN q + 1
        ELSE IF 2 * r < p THEN q
        ELSE IF q % 2 = 0 THEN q ELSE q + 1

ConvertNum(price, denom) == to_integral(price.coef * denom, price.exp)

\* ------------------------------------------------------- quote extraction
ColDate  == "<DTYYYYMMDD>"
ColClose == "<CLOSE>"

ColsAt(header, name) == {k \in 1..Len(header) : header[k] = name}

\* datetime.datetime.strptime(text, '%Y%m%d').date() on an 8-character text
StrptimeCompact(t) ==
    IF Len(t) = 8 /\ \A k \in 1..8 : IsDigit(t[k])
    THEN strptime(Num4(t, 1), Num2(t, 5), Num2(t, 7))
    ELSE [ok |-> FALSE, kind |-> "format"]

\* The body of the with block of get_fund_price on the opened member:
\* read_csv keeps the two used columns in file order, the assignment to
\* data.columns names the first of them date and the second price.
ReadQuote(table) ==
    IF ColsAt(table.header, ColDate) = {} \/ ColsAt(table.header, ColClose) = {}
    THEN [kind |-> "raise", exc |-> "ValueError"]
    ELSE
    LET cd    == CHOOSE k \in ColsAt(table.header, ColDate) : TRUE
        cc    == CHOOSE k \in ColsAt(table.header, ColClose) : TRUE
        first == IF cd < cc THEN cd ELSE cc
        secnd == IF cd < cc THEN cc ELSE cd
    IN  IF table.rows = <<>>
        THEN [kind |-> "raise", exc |-> "IndexError"]
        ELSE
        LET last_row == table.rows[Len(table.rows)]
            price    == Decimal(last_row[secnd])
            date     == StrptimeCompact(last_row[first])
        IN  IF ~price.ok THEN [kind |-> "raise", exc |-> "InvalidOperation"]
            ELSE IF ~date.ok THEN [kind |-> "raise", exc |-> "ValueError"]
            ELSE [kind  |-> "quote",
                  price |-> [coef |-> price.coef, exp |-> price.exp],
                  date  |-> date.date]

\* mutant: a member missing from the zip is answered like an unlisted fund
get_fund_price_lenient(funds, zip, name) ==
    IF name \notin DOMAIN funds THEN [kind |-> "none"]
    ELSE IF funds[name].file \notin DOMAIN zip THEN [kind |-> "none"]
    ELSE ReadQuote(zip[funds[name].file])

\* MstFun.get_fund_price(name) on the manifest dictionary and the open zip
get_fund_price(funds, zip, name) ==
    IF name \notin DOMAIN funds THEN [kind |-> "none"]
    ELSE IF funds[name].file \notin DOMAIN zip
    THEN [kind |-> "raise", exc |-> "KeyError"]
    ELSE ReadQuote(zip[funds[name].file])

\* ------------------------------------------------------- price database
\* A price list is kept newest first; lookup_latest returns its head.
NoError == [exc |-> "none", at |-> "none", quoted |-> <<>>]

Raised(exc, at, quoted) == [exc |-> exc, at |-> at, quoted |-> quoted]

\* mutant: the comparison written > instead of >=
NotOlderStrict(t1, t2) == DateLess(t2, t1)

\* pl.get_time() >= quote[1]
NotOlder(t1, t2) == ~DateLess(t1, t2)

\* mutant: set_time left out, the price keeps the time of the baseline
NewPriceKeepsTime(pl, quote) ==
    [time  |-> pl.time,
     num   |-> ConvertNum(quote.price, pl.denom),
     denom |-> pl.denom]

\* p_new after set_time and set_value (lines 151-154)
NewPrice(pl, quote) ==
    [time  |-> quote.date,
     num   |-> ConvertNum(quote.price, pl.denom),
     denom |-> pl.denom]

\* Lines 148-155 on the price list of one commodity.  p_new = pl rebinds
\* p_new to the looked-up price itself, so set_time and set_value write
\* into the head of the list; add_price is then handed a price the
\* database already holds, and the library either keeps the list as it is
\* or lists the same price once more.
UpdatePrices(prices, quote, lib) ==
    LET p_new   == NewPrice(prices[1], quote)
        written == <<p_new>> \o Tail(prices)
    IN  IF lib = "listed_again" THEN <<p_new>> \o written ELSE written

LibOutcomes == {"kept", "listed_again"}

\* mutant: the quote is looked up before the baseline price is checked
IterationLookupFirst(prices, fullname, funds, zip) ==
    LET quote == get_fund_price(funds, zip, unidecode(fullname)) IN
    IF quote.kind = "none" THEN [kind |-> "unavailable", looked |-> TRUE]
    ELSE IF quote.kind = "raise"
    THEN [kind |-> "raise", looked |-> TRUE, exc |-> quote.exc]
    ELSE IF prices = <<>> THEN [kind |-> "nopln", looked |-> TRUE]
    ELSE IF NotOlder(prices[1].time, quote.date)
    THEN [kind |-> "notolder", looked |-> TRUE]
    ELSE [kind |-> "updating", looked |-> TRUE, quote |-> quote]

\* One iteration of the for loop (lines 126-155) for a commodity with the
\* given fullname and price list: what the iteration does, and whether it
\* called get_fund_price.
Iteration(prices, fullname, funds, zip) ==
    IF prices = <<>> THEN [kind |-> "nopln", looked |-> FALSE]
    ELSE
    LET quote == get_fund_price(funds, zip, unidecode(fullname)) IN
    IF quote.kind = "none" THEN [kind |-> "unavailable", looked |-> TRUE]
    ELSE IF quote.kind = "raise"
    THEN [kind |-> "raise", looked |-> TRUE, exc |-> quote.exc]
    ELSE IF NotOlder(prices[1].time, quote.date)
    THEN [kind |-> "notolder", looked |-> TRUE]
    ELSE [kind |-> "updating", looked |-> TRUE, quote |-> quote]

\* where control goes when the with block is left (lines 125, 156-157):
\* to session.save() when no exception is propagating, else to finally
AfterWithAlwaysSave(err) == "save"

AfterWith(err) == IF err = NoError THEN "save" ELSE "finally"

\* ---------------------------------------------------------------- actions
RunLocalsReset ==
    /\ idx' = 1
    /\ fund_to_file_date' = NoFunds
    /\ error' = NoError
    /\ report' = <<>>
    /\ sessionOpened' = 0
    /\ sessionEnds' = 0
    /\ tmpAcquired' = 0
    /\ tmpCloses' = 0
    /\ zipAcquired' = 0
    /\ zipCloses' = 0
    /\ saveCalls' = 0
    /\ addCalls' = <<>>
    /\ lookups' = 0

\* lines 112-114: no WALLET argument
Usage ==
    /\ pc = "start"
    /\ pc' = "exit"
    /\ error' = Raised("SystemExit", "usage", <<>>)
    /\ UNCHANGED <<manifest, archive, commodities, file, runNo, pdb, idx,
                   fund_to_file_date, report, sessionOpened, sessionEnds,
                   tmpAcquired, tmpCloses, zipAcquired, zipCloses, saveCalls,
                   addCalls, lookups>>

\* line 117: Session(url, True, False, False) loads the wallet file
OpenSession ==
    /\ pc = "start"
    /\ \E outcome \in {"ok", "raise"} :
         IF outcome = "ok"
         THEN /\ sessionOpened' = sessionOpened + 1
              /\ pdb' = file
              /\ pc' = "book"
              /\ error' = error
         ELSE /\ error' = Raised("GnuCashBackendException", "session", <<>>)
              /\ pc' = "exit"
              /\ UNCHANGED <<sessionOpened, pdb>>
    /\ UNCHANGED <<manifest, archive, commodities, file, runNo, idx,
                   fund_to_file_date, report, sessionEnds, tmpAcquired,
                   tmpCloses, zipAcquired, zipCloses, saveCalls, addCalls,
                   lookups>>

\* lines 119-123: book, price db, commodity table, currency, commodities
GetBook ==
    /\ pc = "book"
    /\ \E outcome \in {"ok", "raise"} :
         IF outcome = "ok"
         THEN pc' = "manifest" /\ error' = error
         ELSE pc' = "finally" /\ error' = Raised("Exception", "book", <<>>)
    /\ UNCHANGED <<manifest, archive, commodities, file, runNo, pdb, idx,
                   fund_to_file_date, report, sessionOpened, sessionEnds,
                   tmpAcquired, tmpCloses, zipAcquired, zipCloses, saveCalls,
                   addCalls, lookups>>

\* MstFun.__enter__, lines 61-64: fetch and parse the manifest
EnterManifest ==
    /\ pc = "manifest"
    /\ \E status \in {"200", "other"} :
         LET r == download_polish_funds_list(manifest) IN
         IF status = "200" /\ r.ok
         THEN /\ fund_to_file_date' = r.funds
              /\ pc' = "archive"
              /\ error' = error
         ELSE /\ fund_to_file_date' = fund_to_file_date
              /\ pc' = "finally"
              /\ error' = IF status # "200"
                          THEN Raised("Exception", "manifest_fetch", <<>>)
                          ELSE Raised(r.exc, "manifest_parse", r.quoted)
    /\ UNCHANGED <<manifest, archive, commodities, file, runNo, pdb, idx,
                   report, sessionOpened, sessionEnds, tmpAcquired,
                   tmpCloses, zipAcquired, zipCloses, saveCalls, addCalls,
                   lookups>>

\* MstFun.__enter__, lines 66-82: temporary file, fetch, ZipFile
EnterArchive ==
    /\ pc = "archive"
    /\ \E outcome \in {"ok", "fetch_failed", "bad_zip"} :
         IF outcome = "ok"
         THEN /\ tmpAcquired' = tmpAcquired + 1
              /\ zipAcquired' = zipAcquired + 1
              /\ tmpCloses' = tmpCloses
              /\ idx' = 1
              /\ pc' = IF commodities = <<>> THEN "exitctx" ELSE "loop"
              /\ error' = error
         ELSE /\ tmpAcquired' = tmpAcquired + 1
              /\ tmpCloses' = tmpCloses + 1
              /\ zipAcquired' = zipAcquired
              /\ idx' = idx
              /\ pc' = "finally"
              /\ error' = Raised(IF outcome = "bad_zip" THEN "BadZipfile"
                                 ELSE "Exception", "archive", <<>>)
    /\ UNCHANGED <<manifest, archive, commodities, file, runNo, pdb,
                   fund_to_file_date, report, sessionOpened, sessionEnds,
                   zipCloses, saveCalls, addCalls, lookups>>

\* lines 126-155: one iteration of the for loop
Iterate ==
    /\ pc = "loop"
    /\ idx <= Len(commodities)
    /\ LET it == Iteration(pdb[idx], commodities[idx], fund_to_file_date,
                           archive)
       IN  /\ lookups' = IF it.looked THEN lookups + 1 ELSE lookups
           /\ report' = IF it.kind = "raise" THEN report
                        ELSE Append(report, [fund |-> idx, line |-> it.kind])
           /\ IF it.kind = "updating"
              THEN \E lib \in LibOutcomes :
                     /\ pdb' = [pdb EXCEPT
                                  ![idx] = UpdatePrices(@, it.quote, lib)]
                     /\ addCalls' = Append(addCalls,
                                      [fund  |-> idx,
                                       price |-> UpdatePrices(pdb[idx],
                                                    it.quote, lib)[1]])
              ELSE UNCHANGED <<pdb, addCalls>>
           /\ IF it.kind = "raise"
              THEN /\ error' = Raised(it.exc, "loop", <<>>)
                   /\ idx' = idx
                   /\ pc' = "exitctx"
              ELSE /\ error' = error
                   /\ idx' = idx + 1
                   /\ pc' = IF idx + 1 > Len(commodities) THEN "exitctx"
                            ELSE "loop"
    /\ UNCHANGED <<manifest, archive, commodities, file, runNo,
                   fund_to_file_date, sessionOpened, sessionEnds,
                   tmpAcquired, tmpCloses, zipAcquired, zipCloses, saveCalls>>

\* mutant: __exit__ closes the zip and leaves the temporary file open
ExitContextLeak ==
    /\ pc = "exitctx"
    /\ zipCloses' = zipCloses + 1
    /\ pc' = AfterWith(error)
    /\ UNCHANGED <<manifest, archive, commodities, file, runNo, pdb, idx,
                   fund_to_file_date, error, report, sessionOpened,
                   sessionEnds, tmpAcquired, tmpCloses, zipAcquired,
                   saveCalls, addCalls, lookups>>

\* MstFun.__exit__, lines 84-86, at the end of the with block
ExitContext ==
    /\ pc = "exitctx"
    /\ zipCloses' = zipCloses + 1
    /\ tmpCloses' = tmpCloses + 1
    /\ pc' = AfterWith(error)
    /\ UNCHANGED <<manifest, archive, commodities, file, runNo, pdb, idx,
                   fund_to_file_date, error, report, sessionOpened,
                   sessionEnds, tmpAcquired, zipAcquired, saveCalls,
                   addCalls, lookups>>

\* line 156: session.save()
Save ==
    /\ pc = "save"
    /\ saveCalls' = saveCalls + 1
    /\ \E outcome \in {"ok", "raise"} :
         IF outcome = "ok"
         THEN file' = pdb /\ error' = error
         ELSE file' = file
              /\ error' = Raised("GnuCashBackendException", "save", <<>>)
    /\ pc' = "finally"
    /\ UNCHANGED <<manifest, archive, commodities, runNo, pdb, idx,
                   fund_to_file_date, report, sessionOpened, sessionEnds,
                   tmpAcquired, tmpCloses, zipAcquired, zipCloses, addCalls,
                   lookups>>

\* lines 157-159: session.end(); session.destroy()
EndSession ==
    /\ pc = "finally"
    /\ sessionEnds' = sessionEnds + 1
    /\ pc' = "exit"
    /\ UNCHANGED <<manifest, archive, commodities, file, runNo, pdb, idx,
                   fund_to_file_date, error, report, sessionOpened,
                   tmpAcquired, tmpCloses, zipAcquired, zipCloses, saveCalls,
                   addCalls, lookups>>

\* The program is invoked once more on the saved wallet after a completed
\* run; the served manifest and archive are the same.
RunAgain ==
    /\ pc = "exit"
    /\ runNo = 1
    /\ error = NoError
    /\ runNo' = 2
    /\ pc' = "start"
    /\ pdb' = <<>>
    /\ RunLocalsReset
    /\ UNCHANGED <<manifest, archive, commodities, file>>

Next ==
    \/ Usage
    \/ OpenSession
    \/ GetBook
    \/ EnterManifest
    \/ EnterArchive
    \/ Iterate
    \/ ExitContext
    \/ Save
    \/ EndSession
    \/ RunAgain

\* ----------------------------------------------------------------- inputs
Sp == <<" ">>

\* "2023-01-0d" and "2023010d"
DashedDay(d)  == <<"2", "0", "2", "3", "-", "0", "1", "-", "0", DigitChar(d)>>

CompactDay(d) == <<"2", "0", "2", "3", "0", "1", "0", DigitChar(d)>>

Day(d) == <<2023, 1, d>>

\* fund names of the manifest and the commodity fullnames of the book
NameZloty == <<"Z", "l", "o", "t", "y">>
NameSkarb == <<"S", "k", " ", "O", "b">>
FullZloty == <<"Z", "LSTROKE", "o", "t", "y">>
FullSkarb == <<"S", "k", " ", "O", "b">>
FullRopa  == <<"R", "o", "p", "a">>
FullNafta == <<"N", "a", "f", "t", "a">>

FundList == <<FullZloty, FullSkarb, FullRopa, FullNafta>>

File1 == <<"f", "1">>
File2 == <<"f", "2">>

\* a manifest record: date, three fillers, member, name
Line(date, member, name) ==
    date \o Sp \o Sp \o <<"x">> \o Sp \o <<"1", "2">> \o <<"\t">> \o <<"x">>
         \o Sp \o member \o Sp \o Sp \o name

LineZloty  == Line(DashedDay(2), File1, NameZloty)
LineSkarb  == Line(DashedDay(1), File2, NameSkarb) \o Sp
LineZloty2 == Line(DashedDay(1), File2, NameZloty)
LineIndent == Sp \o LineZloty
LineShort  == DashedDay(1) \o Sp \o <<"x">> \o Sp \o File1 \o Sp \o NameZloty
LineName1  == Line(DashedDay(1), File1, <<"Z">>)
LineMonth  == Line(<<"2", "0", "2", "3", "-", "1", "3", "-", "0", "1">>,
                   File1, NameZloty)
LineFeb30  == Line(<<"2", "0", "2", "3", "-", "0", "2", "-", "3", "0">>,
                   File1, NameZloty)
Junk       == <<"-", "-", "-">>

Header  == <<Junk, <<>>, Junk>>
Trailer == <<Junk, <<>>>>

Seqs(S, n) == UNION {[1..k -> S] : k \in 0..n}

\* a member table: header names and rows of raw cell texts
TableHeader == <<"<TICKER>", ColDate, "<OPEN>", ColClose>>

Row(d, price) == <<<<"T">>, CompactDay(d), <<"1">>, price>>

Table(rows) == [header |-> TableHeader, rows |-> rows]

NoCloseTable == [header |-> <<"<TICKER>", ColDate>>,
                 rows   |-> <<<<<<"T">>, CompactDay(1)>>>>]

EmptyTable == Table(<<>>)

Price125 == <<"1", ".", "2", "5">>
Price126 == <<"0", ".", "1", "2", "6">>
Price25  == <<"2", ".", "5">>
Price3   == <<"3">>

\* archives: members File1 and File2, each absent or one of the tables
Archives(tables) == UNION {[S -> tables] : S \in SUBSET {File1, File2}}

\* a price of the wallet file
Price(d, num, denom) == [time |-> Day(d), num |-> num, denom |-> denom]

\* the books with the first n funds of FundList, each fund with no price or
\* one of the given price lists
Books(n, lists) == [1..n -> {<<>>} \cup lists]

InitWith(ms, as, n, book) ==
    /\ manifest \in ms
    /\ archive \in as
    /\ commodities = SubSeq(FundList, 1, n)
    /\ file = book
    /\ pc = "start"
    /\ runNo = 1
    /\ pdb = <<>>
    /\ idx = 1
    /\ fund_to_file_date = NoFunds
    /\ error = NoError
    /\ report = <<>>
    /\ sessionOpened = 0
    /\ sessionEnds = 0
    /\ tmpAcquired = 0
    /\ tmpCloses = 0
    /\ zipAcquired = 0
    /\ zipCloses = 0
    /\ saveCalls = 0
    /\ addCalls = <<>>
    /\ lookups = 0

\* Runs over books of up to MaxFunds funds, manifests listing some of them
\* or broken, archives with members missing or unreadable.
RunManifests ==
    {Header \o body \o Trailer :
        body \in {<<LineZloty, LineSkarb>>, <<LineSkarb>>, <<LineZloty>>,
                  <<LineZloty, LineShort>>, <<LineFeb30, LineSkarb>>}}

RunTables == {NoCloseTable, EmptyTable, Table(<<Row(1, Price125)>>),
              Table(<<Row(1, Price25), Row(2, Price125)>>)}

RunLists == {<<Price(1, 7, 10)>>, <<Price(2, 7, 10)>>}

Init ==
    \E n \in 1..MaxFunds : \E book \in Books(n, RunLists) :
        InitWith(RunManifests, Archives(RunTables), n, book)

Spec == Init /\ [][Next]_vars

\* Runs over one fund and the quotes, dates and denominators of its prices.
QuotePrices == {Price125, Price126, Price25, Price3}

QuoteRows == {Row(d, p) : d \in 1..MaxDay, p \in QuotePrices}

QuoteTables == {Table(rows) : rows \in Seqs(QuoteRows, 2) \ {<<>>}}

QuoteLists ==
    {<<Price(d, 7, denom)>> : d \in 1..MaxDay, denom \in {1, 10, 100}}
      \cup {<<Price(2, 7, 10), Price(1, 5, 10)>>}

InitQuote ==
    \E book \in Books(1, QuoteLists) :
        InitWith({Header \o <<LineZloty>> \o Trailer},
                 [{File1} -> QuoteTables], 1, book)

SpecQuote == InitQuote /\ [][Next]_vars

\* Runs over the manifest texts: short ones, and a header, up to MaxBody
\* records and a trailer, the records well formed or not.
ParseLines == {LineZloty, LineZloty2, LineSkarb, LineIndent, LineShort,
               LineName1, LineMonth, LineFeb30}

ParseManifests ==
    Seqs({Junk, LineZloty}, 5)
      \cup {h \o body \o t :
              h \in {Header, <<LineSkarb, LineSkarb, LineSkarb>>},
              t \in {Trailer, <<LineSkarb, LineIndent>>},
              body \in Seqs(ParseLines, MaxBody)}

InitParse ==
    InitWith(ParseManifests,
             {[m \in {File1, File2} |-> Table(<<Row(2, Price125)>>)]},
             1, <<<<Price(1, 7, 10)>>>>)

SpecParse == InitParse /\ [][Next]_vars

\* ----------------------------------------------------------------- claims
Range(sq) == {sq[k] : k \in DOMAIN sq}

Abs(x) == IF x < 0 THEN -x ELSE x

\* what the manifest dictionary and the archive hold for commodity k
Listed(k) == unidecode(commodities[k]) \in DOMAIN fund_to_file_date

Member(k) == fund_to_file_date[unidecode(commodities[k])].file

Readable(k) ==
    /\ Listed(k)
    /\ Member(k) \in DOMAIN archive
    /\ ReadQuote(archive[Member(k)]).kind = "quote"

QuoteFor(k) == ReadQuote(archive[Member(k)])

Unreadable(k) == Listed(k) /\ ~Readable(k)

\* C1: in an iteration for a commodity with a baseline price dated T1 and a
\* resolved quote dated T2, add_price is called (with a price dated T2 for
\* that commodity, which is then the latest price of the commodity) if and
\* only if T2 > T1; when T2 <= T1 there is no call,
\* the price database is left as it is and the commodity is reported as
\* skipped for not being older.
C1_FreshnessDecision ==
    [][(pc = "loop" /\ pdb[idx] # <<>> /\ Readable(idx)) =>
         LET T1 == pdb[idx][1].time
             T2 == QuoteFor(idx).date
         IN  /\ (Len(addCalls') = Len(addCalls) + 1) <=> DateLess(T1, T2)
             /\ DateLess(T1, T2) =>
                  /\ addCalls'[Len(addCalls')].fund = idx
                  /\ addCalls'[Len(addCalls')].price.time = T2
                  /\ pdb'[idx][1].time = T2
                  /\ report' = Append(report,
                                 [fund |-> idx, line |-> "updating"])
             /\ ~DateLess(T1, T2) =>
                  /\ addCalls' = addCalls
                  /\ pdb' = pdb
                  /\ report' = Append(report,
                                 [fund |-> idx, line |-> "notolder"])
      ]_vars

\* a quote dated like the baseline was skipped
C1_Witness ==
    /\ runNo = 1
    /\ pc = "exitctx"
    /\ report = <<[fund |-> 1, line |-> "notolder"]>>
    /\ addCalls = <<>>
    /\ pdb[1][1].time = Day(2)
    /\ QuoteFor(1).date = Day(2)

\* C2 as stated: once the loop is entered, every commodity is processed
\* (each processed commodity prints one progress line) and the run reaches
\* session.save(), whatever is missing from the manifest or the archive.
C2_NeverAborts ==
    (pc = "exit" /\ zipAcquired = 1) =>
        /\ Len(report) = Len(commodities)
        /\ saveCalls = 1

FirstUnreadable ==
    LET bad == {k \in 1..Len(commodities) : pdb[k] # <<>> /\ Unreadable(k)}
    IN  IF bad = {} THEN Len(commodities) + 1
        ELSE CHOOSE k \in bad : \A j \in bad : k <= j

\* C2 amended: a commodity whose name is absent from the manifest is
\* reported unavailable and the loop goes on.  The first commodity with a
\* baseline price whose listed member is missing from the zip or whose
\* table cannot be read makes get_fund_price raise: the run ends there with
\* that exception, no later commodity is processed and session.save() is
\* not called; the zip and the session are still released.  Without such a
\* commodity every commodity is processed and save is reached.
C2_UnlistedSkippedUnreadableAborts ==
    (pc = "exit" /\ zipAcquired = 1) =>
        /\ Len(report) = FirstUnreadable - 1
        /\ \A k \in 1..Len(report) :
             /\ report[k].fund = k
             /\ (pdb[k] # <<>> /\ ~Listed(k)) => report[k].line = "unavailable"
        /\ FirstUnreadable > Len(commodities) => saveCalls = 1
        /\ FirstUnreadable <= Len(commodities) =>
             /\ error.at = "loop"
             /\ saveCalls = 0
             /\ zipCloses = 1
             /\ sessionEnds = 1

\* the first fund is not listed and is skipped, the second one's member is
\* missing or unreadable and ends the run
C2_Witness ==
    /\ pc = "exit"
    /\ error.at = "loop"
    /\ Len(commodities) = 2
    /\ report = <<[fund |-> 1, line |-> "unavailable"]>>
    /\ saveCalls = 0

\* C3 as stated: after an update the price list of the commodity has one
\* price more, among them a price dated like the quote and the baseline
\* price of the wallet file with its time and value.
C3_BaselineKept ==
    (runNo = 1 /\ pc \in {"loop", "exitctx"}) =>
        \A c \in Range(addCalls) :
            /\ Len(pdb[c.fund]) = Len(file[c.fund]) + 1
            /\ file[c.fund][1] \in Range(pdb[c.fund])
            /\ \E r \in Range(pdb[c.fund]) : r.time = c.price.time

\* C4: the session, the temporary file and the zip are each released at
\* most once and never more often than acquired; when the process has
\* exited each one acquired has been released; and before its exit the
\* process is always at a position whose step can be taken.
C4_ReleasedOnce ==
    /\ sessionEnds <= sessionOpened /\ sessionOpened <= 1
    /\ tmpCloses <= tmpAcquired /\ tmpAcquired <= 1
    /\ zipCloses <= zipAcquired /\ zipAcquired <= 1
    /\ pc = "exit" =>
         /\ sessionEnds = sessionOpened
         /\ tmpCloses = tmpAcquired
         /\ zipCloses = zipAcquired
    /\ pc # "exit" =>
         /\ pc \in {"start", "book", "manifest", "archive", "loop",
                    "exitctx", "save", "finally"}
         /\ pc = "loop" => idx <= Len(commodities)

\* an exception of the loop: zip, temporary file and session released
C4_Witness ==
    /\ pc = "exit"
    /\ error.at = "loop"
    /\ zipCloses = 1
    /\ tmpCloses = 1
    /\ sessionEnds = 1

\* C5: within a run session.save() is called at most once, and only when
\* every commodity has been processed, the archive has been released, no
\* exception is propagating and the session has not been ended; the wallet
\* file changes only in that call; once an exception propagates there is
\* no call and the file stays as it is.
C5_SingleCommit ==
    [][/\ (runNo' = runNo /\ saveCalls' # saveCalls) =>
            /\ saveCalls = 0 /\ saveCalls' = 1
            /\ idx = Len(commodities) + 1
            /\ Len(report) = Len(commodities)
            /\ zipAcquired = 1 /\ zipCloses = 1 /\ tmpCloses = 1
            /\ error = NoError
            /\ sessionEnds = 0 /\ sessionEnds' = 0
       /\ file' # file => saveCalls' = saveCalls + 1
       /\ error # NoError => (file' = file /\ saveCalls' = saveCalls)
       /\ (error' # NoError /\ error'.at # "save") => saveCalls' = 0
      ]_vars

\* a run that updated a price has saved it and is about to end the session
C5_Witness ==
    /\ pc = "finally"
    /\ runNo = 1
    /\ saveCalls = 1
    /\ addCalls # <<>>
    /\ file = pdb
    /\ sessionEnds = 0

\* the lines between the 3-line header and the 2-line trailer
BodyIdx == {k \in 1..Len(manifest) : k > 3 /\ k <= Len(manifest) - 2}

WellFormed(l) == PatMatch(l).ok /\ StrptimeDashed(PatMatch(l).date).ok

NameOf(l) == PatMatch(l).name

EntryOf(l) == [file |-> PatMatch(l).file,
               date |-> StrptimeDashed(PatMatch(l).date).date]

\* C6: when every line between the first 3 and the last 2 is a well-formed
\* record, parsing does not fail and the dictionary's keys are exactly the
\* names on those lines, each mapped to the member and date of the last
\* line with that name; with unique names it has (lines - 5) entries, and
\* a manifest of 5 or fewer lines gives the empty dictionary.
C6_ParseResult ==
    (\A k \in BodyIdx : WellFormed(manifest[k])) =>
        /\ error.at # "manifest_parse"
        /\ pc = "archive" =>
             /\ DOMAIN fund_to_file_date =
                   {NameOf(manifest[k]) : k \in BodyIdx}
             /\ \A k \in BodyIdx :
                  (\A j \in BodyIdx :
                      j > k => NameOf(manifest[j]) # NameOf(manifest[k]))
                  => fund_to_file_date[NameOf(manifest[k])]
                       = EntryOf(manifest[k])
             /\ (/\ Len(manifest) >= 5
                 /\ \A j, k \in BodyIdx :
                      j # k => NameOf(manifest[j]) # NameOf(manifest[k]))
                => Cardinality(DOMAIN fund_to_file_date) = Len(manifest) - 5
             /\ Len(manifest) <= 5 => fund_to_file_date = NoFunds

\* two records with the same name: the later one is kept
C6_Witness ==
    /\ pc = "archive"
    /\ Len(manifest) = 7
    /\ manifest[4] = LineZloty
    /\ manifest[5] = LineZloty2
    /\ fund_to_file_date = (NameZloty :> [file |-> File2, date |-> Day(1)])

FirstMalformed ==
    CHOOSE k \in BodyIdx :
        /\ ~WellFormed(manifest[k])
        /\ \A j \in BodyIdx : j < k => WellFormed(manifest[j])

\* C7 as stated: with a malformed record between header and trailer the
\* parse never succeeds, no entry is kept, nothing is added or saved, and
\* the parse error quotes the first malformed line as it stands.
C7_FailsNamingLine ==
    (\E k \in BodyIdx : ~WellFormed(manifest[k])) =>
        /\ pc \notin {"archive", "loop", "exitctx", "save"}
        /\ fund_to_file_date = NoFunds
        /\ addCalls = <<>>
        /\ saveCalls = 0
        /\ error.at = "manifest_parse" => error.quoted = manifest[FirstMalformed]

\* C8: an iteration for a commodity without a price does not call
\* get_fund_price, leaves the price database and the add_price calls as
\* they are, raises nothing, reports the commodity and goes on to the next.
C8_NoBaselineUntouched ==
    [][(pc = "loop" /\ pdb[idx] = <<>>) =>
         /\ lookups' = lookups
         /\ pdb' = pdb
         /\ addCalls' = addCalls
         /\ error' = NoError
         /\ report' = Append(report, [fund |-> idx, line |-> "nopln"])
         /\ idx' = idx + 1
         /\ pc' = IF idx < Len(commodities) THEN "loop" ELSE "exitctx"
      ]_vars

\* a fund without a price was skipped although listed with a readable
\* quote, and the next fund was processed
C8_Witness ==
    /\ Len(report) = 2
    /\ report[1] = [fund |-> 1, line |-> "nopln"]
    /\ Readable(1)
    /\ pdb[1] = <<>>

\* C9: the price handed to add_price has the denominator D of the baseline
\* and a numerator N with |N - P*D| <= 1/2, so |N/D - P| < 1/D, and
\* N/D = P when P*D is an integer (P = coef / 10^exp).
C9_FixedPoint ==
    (runNo = 1 /\ pc \in {"loop", "exitctx", "save"}) =>
        \A c \in Range(addCalls) :
            LET D     == file[c.fund][1].denom
                P     == QuoteFor(c.fund).price
                N     == c.price.num
                scale == Pow10(P.exp)
            IN  /\ c.price.denom = D
                /\ 2 * Abs(N * scale - P.coef * D) <= scale
                /\ Abs(N * scale - P.coef * D) < scale
                /\ (P.coef * D) % scale = 0 => N * scale = P.coef * D

\* 0.126 with denominator 100 was rounded up to 13
C9_Witness ==
    /\ runNo = 1
    /\ pc = "exitctx"
    /\ Len(addCalls) = 1
    /\ QuoteFor(1).price = [coef |-> 126, exp |-> 3]
    /\ addCalls[1].price.num = 13
    /\ addCalls[1].price.denom = 100

\* C10: in the run that follows a completed run on the saved wallet, with
\* the same manifest and archive, add_price is never called, the price
\* database in memory is the saved one and the wallet file stays as the
\* first run left it.
C10_SecondRunAddsNothing ==
    [][runNo = 2 =>
         /\ addCalls' = <<>>
         /\ file' = file
         /\ pdb' \in {<<>>, file}
         /\ \A r \in Range(report') : r.line # "updating"
      ]_vars

\* the second run skipped the fund the first run had updated
C10_Witness ==
    /\ runNo = 2
    /\ pc = "exit"
    /\ error = NoError
    /\ \E k \in 1..Len(report) :
         /\ report[k].line = "notolder"
         /\ file[report[k].fund][1] = Price(2, 12, 10)

====
